---- MODULE Spec2Model ----
(***************************************************************************)
(* A model of the data importer: the loaders (DataHandler.load_file,       *)
(* read_file, MainWindow.load_file), the name sanitizer clean_column_name, *)
(* DatabaseConfig and the import operation MainWindow.import_data.         *)
(*                                                                         *)
(* Strings that the code inspects character by character (paths, sheet     *)
(* names, column names) are sequences of one-character strings.  A dataset *)
(* is a record: the source it was read from, its column names and its      *)
(* number of rows; row r of a dataset is the pair of its source and r.     *)
(* A database table is the sequence of row ranges written to it.           *)
(*                                                                         *)
(* Specifications: Spec (the main window: files selected, sheets chosen,   *)
(* datasets imported), FairSpec (Spec where a running import goes on),     *)
(* ReentrantSpec (Spec where a click on the import button is also handled  *)
(* inside processEvents), LoaderSpec (the three loaders), BackendSpec      *)
(* (DatabaseConfig and import_dataframes) and FunctionsSpec (the name      *)
(* functions and the null normalization).                                  *)
(***************************************************************************)
EXTENDS Integers, Sequences, FiniteSets, TLC

(***************************************************************************)
(* Bounds of the model.                                                    *)
(***************************************************************************)
\* the largest CSV input has MaxFullBatches full batches of rows and half a batch
MaxFullBatches == 2
\* the number of import_data calls in one behaviour
MaxImports == 1
\* the number of UI events handled inside the processEvents calls of one import
MaxYieldEvents == 1
\* number of rows a table may hold before the first import
OldRows == 3
\* the longest name the functions are called on
MaxNameLen == 3
\* the number of import_data calls started from inside a running one
MaxNested == 1
\* the number of calls made on one DatabaseConfig or of import_dataframes
MaxCalls == 3

(***************************************************************************)
(* Program constants.                                                      *)
(***************************************************************************)
\* range(0, total_rows, 1000) and df.iloc[i:min(i + 1000, total_rows)]
BatchSize == 1000
\* preview_rows = min(10, len(df))
PreviewLimit == 10
\* self.progress_bar.setValue(20), int((rows_processed / total_rows * 80) + 20)
TableCreatedProgress == 20
ProgressSpan == 80

(***************************************************************************)
(* Characters and strings.                                                 *)
(***************************************************************************)
UpperChars == <<"A","B","C","D","E","F","G","H","I","J","K","L","M",
                "N","O","P","Q","R","S","T","U","V","W","X","Y","Z">>
LowerChars == <<"a","b","c","d","e","f","g","h","i","j","k","l","m",
                "n","o","p","q","r","s","t","u","v","w","x","y","z">>
Digits == {"0","1","2","3","4","5","6","7","8","9"}

Range(s) == {s[i] : i \in 1..Len(s)}

UpperSet == Range(UpperChars)
LowerSet == Range(LowerChars)
IsUpper(c) == c \in UpperSet
IsLower(c) == c \in LowerSet

\* the lower-case letter of each upper-case letter
\* str.lower() on one character
LowerChar(c) ==
    IF IsUpper(c)
    THEN LowerChars[CHOOSE k \in 1..Len(UpperChars) : UpperChars[k] = c]
    ELSE c

\* [Op(x) for x in s]
RECURSIVE Map(_, _)
Map(Op(_), s) == IF s = <<>> THEN <<>> ELSE <<Op(Head(s))>> \o Map(Op, Tail(s))

\* str.lower()
Lower(s) == Map(LowerChar, s)

\* the character class [a-zA-Z0-9_]
IsWordChar(c) == IsUpper(c) \/ IsLower(c) \/ c \in Digits \/ c = "_"

\* the text of a character sequence, for log lines and messages
RECURSIVE Text(_)
Text(s) == IF s = <<>> THEN "" ELSE Head(s) \o Text(Tail(s))

(***************************************************************************)
(* utils.clean_column_name                                                 *)
(***************************************************************************)
\* re.sub(r'[^a-zA-Z0-9_]', '_', s)
SpecialToUnderscore(c) == IF IsWordChar(c) THEN c ELSE "_"
ReplaceSpecial(s) == Map(SpecialToUnderscore, s)

\* re.sub(r'_+', '_', s)
RECURSIVE CollapseUnderscores(_)
CollapseUnderscores(s) ==
    IF Len(s) < 2 THEN s
    ELSE IF s[1] = "_" /\ s[2] = "_" THEN CollapseUnderscores(Tail(s))
    ELSE <<s[1]>> \o CollapseUnderscores(Tail(s))

\* s.lstrip('_') and s.rstrip('_')
RECURSIVE LStrip(_)
LStrip(s) == IF s # <<>> /\ Head(s) = "_" THEN LStrip(Tail(s)) ELSE s
RECURSIVE RStrip(_)
RStrip(s) ==
    IF s # <<>> /\ s[Len(s)] = "_" THEN RStrip(SubSeq(s, 1, Len(s) - 1)) ELSE s
\* a variant that strips the leading underscores only
StripLeadingUnderscores(s) == LStrip(s)

StripUnderscores(s) == RStrip(LStrip(s))

\* a variant that strips before it replaces
clean_column_name_strip_first(s) ==
    Lower(ReplaceSpecial(StripUnderscores(CollapseUnderscores(s))))

clean_column_name(s) == Lower(StripUnderscores(CollapseUnderscores(ReplaceSpecial(s))))

\* [clean_column_name(col) for col in df.columns]
CleanColumns(cols) == Map(clean_column_name, cols)

\* create_table_from_df: col.replace(' ', '_').replace('-', '_')
SpaceDashToUnderscore(c) == IF c = " " \/ c = "-" THEN "_" ELSE c
ReplaceSpaceDash(s) == Map(SpaceDashToUnderscore, s)
ReplaceSpaceDashColumns(cols) == Map(ReplaceSpaceDash, cols)

(***************************************************************************)
(* Paths: pathlib.Path(p).suffix / .stem and os.path.splitext/basename.    *)
(***************************************************************************)
\* the index of the last occurrence of c in s, 0 when there is none
RECURSIVE LastIndexOf(_, _)
LastIndexOf(s, c) ==
    IF s = <<>> THEN 0
    ELSE IF s[Len(s)] = c THEN Len(s)
    ELSE LastIndexOf(SubSeq(s, 1, Len(s) - 1), c)

\* Path(p).name, os.path.basename(p)
BaseName(p) == SubSeq(p, LastIndexOf(p, "/") + 1, Len(p))

\* the position of the dot that starts the extension: a leading dot starts none
DotIndex(p) ==
    LET n == BaseName(p)
        k == LastIndexOf(n, ".")
    IN IF k > 1 THEN k ELSE 0

\* Path(p).suffix, os.path.splitext(p)[-1]
Suffix(p) ==
    LET n == BaseName(p)
    IN IF DotIndex(p) = 0 THEN <<>> ELSE SubSeq(n, DotIndex(p), Len(n))

\* Path(p).stem, os.path.splitext(os.path.basename(p))[0]
Stem(p) ==
    LET n == BaseName(p)
    IN IF DotIndex(p) = 0 THEN n ELSE SubSeq(n, 1, DotIndex(p) - 1)

ExtCsv == <<".", "c", "s", "v">>
ExtXlsx == <<".", "x", "l", "s", "x">>
ExtXls == <<".", "x", "l", "s">>

\* file_ext == '.csv'
IsCsv(p) == Lower(Suffix(p)) = ExtCsv
\* file_ext in ['.xlsx', '.xls']
IsExcel(p) == Lower(Suffix(p)) \in {ExtXlsx, ExtXls}

(***************************************************************************)
(* The input files.  A file is its path, what reading it yields (its       *)
(* sheets in file order; a CSV has one) and, when bad, where reading it    *)
(* fails: failAt = 0 when opening it raises, k when reading sheet k raises.*)
(***************************************************************************)
\* the row counts of the CSV inputs: 0, 1, 1000 and 2500 (a sheet of BookFile
\* has 1001)
RowCounts == {0, 1, BatchSize, MaxFullBatches * BatchSize + BatchSize \div 2}

ColsA == << <<"C","o","l"," ","A">>, <<"b","-","c">> >>
ColsPadded == << <<" ","i","d"," ">>, <<"N","a","m","e","!">> >>

Sheet(name, cols, nrows) == [name |-> name, cols |-> cols, nrows |-> nrows]

CsvFile(n) ==
    [id |-> "csv" \o ToString(n),
     path |-> <<"d","/","d","a","t","a",".","c","s","v">>,
     sheets |-> <<Sheet(<<>>, ColsA, n)>>,
     bad |-> FALSE, failAt |-> 0]

UpperCsvFile ==
    [id |-> "uppercsv",
     path |-> <<"R","e","p",".","C","S","V">>,
     sheets |-> <<Sheet(<<>>, ColsPadded, 2)>>,
     bad |-> FALSE, failAt |-> 0]

MissingCsvFile ==
    [id |-> "missing",
     path |-> <<"g","o","n","e",".","c","s","v">>,
     sheets |-> <<Sheet(<<>>, ColsA, 1)>>,
     bad |-> TRUE, failAt |-> 0]

BookFile ==
    [id |-> "book",
     path |-> <<"b","o","o","k",".","x","l","s","x">>,
     sheets |-> <<Sheet(<<"S","h","e","e","t","1">>, ColsA, 3),
                  Sheet(<<"M","y"," ","S","h","e","e","t">>, ColsPadded, BatchSize + 1)>>,
     bad |-> FALSE, failAt |-> 0]

BrokenBookFile ==
    [id |-> "broken",
     path |-> <<"o","l","d",".","x","l","s">>,
     sheets |-> <<Sheet(<<"S","h","e","e","t","1">>, ColsPadded, 2),
                  Sheet(<<"B","a","d">>, ColsA, 1)>>,
     bad |-> TRUE, failAt |-> 2]

TextFile ==
    [id |-> "text",
     path |-> <<"n","o","t","e","s",".","t","x","t">>,
     sheets |-> <<Sheet(<<>>, ColsA, 1)>>,
     bad |-> FALSE, failAt |-> 0]

Files ==
    {CsvFile(n) : n \in RowCounts}
        \cup {UpperCsvFile, MissingCsvFile, BookFile, BrokenBookFile, TextFile}

\* the dataset that reading sheet k of file f yields (pd.read_csv, pd.read_excel):
\* as parsed, its absent cells are NaN (norm is false)
Dataset(f, k) ==
    [src |-> f.id, sheet |-> k, cols |-> f.sheets[k].cols, nrows |-> f.sheets[k].nrows,
     norm |-> FALSE]

\* the copy of d whose NaN and NaT cells are None: df.where(pd.notnull(df), None),
\* df.replace({pd.NaT: None, np.nan: None})
Normalized(d) == [d EXCEPT !.norm = TRUE]

(***************************************************************************)
(* A Python dict, in insertion order: a sequence of entries with distinct  *)
(* keys.  Assigning to a key that is present keeps its position.           *)
(***************************************************************************)
KeyOf(e) == e.key
Keys(d) == Map(KeyOf, d)
HasKey(d, k) == \E j \in 1..Len(d) : d[j].key = k
Get(d, k) == d[CHOOSE j \in 1..Len(d) : d[j].key = k].df
\* d[k] = v where k is a key of d
RECURSIVE Replace(_, _, _)
Replace(d, k, v) ==
    IF d = <<>> THEN <<>>
    ELSE <<IF Head(d).key = k THEN [key |-> k, df |-> v] ELSE Head(d)>>
             \o Replace(Tail(d), k, v)
\* d[k] = v
Put(d, k, v) == IF HasKey(d, k) THEN Replace(d, k, v) ELSE Append(d, [key |-> k, df |-> v])

\* the number of sheets of workbook f that are read before reading raises
SheetsRead(f) ==
    IF ~f.bad THEN Len(f.sheets)
    ELSE IF f.failAt = 0 THEN 0
    ELSE f.failAt - 1

(***************************************************************************)
(* Log lines and messages: a level and the parts of the formatted text.    *)
(***************************************************************************)
Lit(s) == [t |-> "lit", v |-> s]
Arg(tag, s) == [t |-> tag, v |-> s]
Line(level, parts) == [level |-> level, parts |-> parts]

\* str(e) of the error a read raises on file f
ReadError(f) == "cannot read " \o f.id

(***************************************************************************)
(* State.                                                                  *)
(***************************************************************************)
VARIABLES
    loader,          \* the loader the calls go to
    last_call,       \* the latest loader call: the function and its path argument
    \* DataHandler
    dh_dataframes,   \* DataHandler.dataframes
    dh_result,       \* what the latest DataHandler.load_file call returned or raised
    dh_logged,       \* the lines the latest DataHandler.load_file call logged
    \* read_file
    rf_result,       \* what the latest read_file call returned or raised
    \* MainWindow
    dataframes,      \* MainWindow.dataframes
    selector,        \* df_selector: its items and its current text
    preview,         \* preview_table: the dataset shown, its rows and columns
    import_btn,      \* import_btn.isEnabled()
    bar_visible,     \* progress_bar.isVisible()
    logged,          \* the lines the latest MainWindow handler logged
    dialogs,         \* the message boxes the latest MainWindow handler showed
    \* one import_data call
    pc,              \* the phase of the import operation
    current_sheet,   \* the local current_sheet of import_data
    df,              \* the local df of import_data
    table_name,      \* the local table_name of import_data
    engine,          \* db_config.engine
    i,               \* the start index of the batch loop
    rows_processed,  \* the local rows_processed of import_data
    progress,        \* the values import_data has set on the progress bar
    calls,           \* the backend calls import_data has made, in order
    table_before,    \* what the target table held when import_data was called
    imports,         \* the number of import_data calls so far
    suspended,       \* the import_data calls waiting inside processEvents for a
                     \* nested import_data call to return: their locals
    events,          \* the number of UI events handled inside the processEvents calls
                     \* of this import_data call and of the calls nested in it
    \* the relational backend
    db,              \* table name -> the row ranges the table holds
    \* functions called on their own
    applied,         \* the latest call of a function: its name, argument and result
    \* DatabaseConfig and import_dataframes called on their own
    db_config,       \* the DatabaseConfig object: its engine
    dbc_call         \* the latest such call: what it returned or raised, what it logged

dh_vars == <<dh_dataframes, dh_result, dh_logged>>
win_vars == <<dataframes, selector, preview, import_btn, bar_visible, logged, dialogs>>
op_vars == <<pc, current_sheet, df, table_name, engine, i, rows_processed, progress, calls,
            table_before, imports, events, suspended>>
dbc_vars == <<db_config, dbc_call>>
vars == <<loader, last_call, dh_vars, rf_result, win_vars, op_vars, db, applied, dbc_vars>>

\* a call's outcome: the mapping it returned, or the error it raised
Returned(d) == [raised |-> FALSE, value |-> d, error |-> ""]
Raised(e) == [raised |-> TRUE, value |-> <<>>, error |-> e]
NoCall == [raised |-> FALSE, value |-> <<>>, error |-> "no call"]

(***************************************************************************)
(* DataHandler.load_file                                                   *)
(***************************************************************************)
\* the entries load_file(f.path) assigns to self.dataframes, in order
RECURSIVE SheetEntries(_, _)
SheetEntries(f, n) ==
    IF n = 0 THEN <<>>
    ELSE Append(SheetEntries(f, n - 1), [key |-> f.sheets[n].name, df |-> Dataset(f, n)])

\* a variant that reads every file that is no workbook as CSV
DHEntriesElseCsv(f) ==
    IF IsExcel(f.path) THEN SheetEntries(f, SheetsRead(f))
    ELSE (IF f.bad THEN <<>> ELSE <<[key |-> Stem(f.path), df |-> Dataset(f, 1)]>>)

DHEntries(f) ==
    IF IsCsv(f.path)
    THEN (IF f.bad THEN <<>> ELSE <<[key |-> Stem(f.path), df |-> Dataset(f, 1)]>>)
    ELSE IF IsExcel(f.path) THEN SheetEntries(f, SheetsRead(f))
    ELSE <<>>

\* whether load_file(f.path) raises: only a read raises
DHRaises(f) == (IsCsv(f.path) \/ IsExcel(f.path)) /\ f.bad

\* the lines load_file(f.path) logs
DHLines(f) ==
    IF DHRaises(f)
    THEN <<Line("error", <<Lit("Error loading file "), Arg("path", Text(f.path)),
                            Lit(": "), Arg("cause", ReadError(f))>>)>>
    ELSE IF IsCsv(f.path)
    THEN <<Line("info", <<Lit("Successfully loaded CSV file: "),
                           Arg("name", Text(Stem(f.path)))>>)>>
    ELSE IF IsExcel(f.path)
    THEN <<Line("info", <<Lit("Successfully loaded Excel file: "),
                           Arg("name", Text(Stem(f.path)))>>)>>
    ELSE <<>>

\* what load_file(f.path) does, for each input file
DHLoad ==
    [f \in Files |-> [entries |-> DHEntries(f), raises |-> DHRaises(f), lines |-> DHLines(f)]]

\* d after the assignments d[e.key] = e.df for the entries es, in order
RECURSIVE PutAll(_, _)
PutAll(d, es) == IF es = <<>> THEN d ELSE PutAll(Put(d, Head(es).key, Head(es).df), Tail(es))

\* a variant that starts from an empty mapping at every call
DHLoadFileFresh(f) ==
    /\ loader = "DataHandler"
    /\ last_call' = [fn |-> "DataHandler.load_file", path |-> f.path]
    /\ dh_dataframes' = PutAll(<<>>, DHLoad[f].entries)
    /\ dh_logged' = DHLoad[f].lines
    /\ dh_result' = IF DHLoad[f].raises THEN Raised(ReadError(f))
                    ELSE Returned(dh_dataframes')
    /\ UNCHANGED <<rf_result, win_vars, op_vars, db, loader, applied, dbc_vars>>

DHLoadFile(f) ==
    /\ loader = "DataHandler"
    /\ last_call' = [fn |-> "DataHandler.load_file", path |-> f.path]
    /\ dh_dataframes' = PutAll(dh_dataframes, DHLoad[f].entries)
    /\ dh_logged' = DHLoad[f].lines
    /\ dh_result' = IF DHLoad[f].raises THEN Raised(ReadError(f))
                    ELSE Returned(dh_dataframes')
    /\ UNCHANGED <<rf_result, win_vars, op_vars, db, loader, applied, dbc_vars>>

(***************************************************************************)
(* file_handler.read_file and clean_dataframe                              *)
(***************************************************************************)
\* col.strip(): leading and trailing blanks removed
RECURSIVE LStripBlank(_)
LStripBlank(s) == IF s # <<>> /\ Head(s) = " " THEN LStripBlank(Tail(s)) ELSE s
RECURSIVE RStripBlank(_)
RStripBlank(s) ==
    IF s # <<>> /\ s[Len(s)] = " " THEN RStripBlank(SubSeq(s, 1, Len(s) - 1)) ELSE s
StripBlank(s) == RStripBlank(LStripBlank(s))

clean_dataframe(d) == Normalized([d EXCEPT !.cols = Map(StripBlank, d.cols)])

\* {sheet: clean_dataframe(df) for sheet, df in excel.items()}
RECURSIVE CleanSheets(_, _)
CleanSheets(f, n) ==
    IF n = 0 THEN <<>>
    ELSE Put(CleanSheets(f, n - 1), f.sheets[n].name, clean_dataframe(Dataset(f, n)))

read_file(f) ==
    IF IsCsv(f.path)
    THEN (IF f.bad THEN Raised(ReadError(f))
          ELSE Returned(<<[key |-> Stem(f.path), df |-> clean_dataframe(Dataset(f, 1))]>>))
    ELSE IF IsExcel(f.path)
    THEN (IF f.bad THEN Raised(ReadError(f))
          ELSE Returned(CleanSheets(f, Len(f.sheets))))
    ELSE Raised("Unsupported file type")

\* what read_file(f.path) returns or raises, for each input file
ReadFileResult == [f \in Files |-> read_file(f)]

ReadFile(f) ==
    /\ loader = "read_file"
    /\ last_call' = [fn |-> "read_file", path |-> f.path]
    /\ rf_result' = ReadFileResult[f]
    /\ UNCHANGED <<dh_vars, win_vars, op_vars, db, loader, applied, dbc_vars>>

(***************************************************************************)
(* MainWindow.update_preview, load_file, select_file                       *)
(***************************************************************************)
Min(a, b) == IF a < b THEN a ELSE b

\* whether import_data is at a point where the UI handles events: it is not
\* running, or it is in QApplication.processEvents() (after the table is
\* created and after each batch)
Running == pc \in {"Connecting", "TableCreating", "Writing"}
AtYield == pc = "Writing"

\* whether update_preview gets past its two early returns
PreviewRuns(d, sel) == d # <<>> /\ HasKey(d, sel.current)

\* the UI handles an event: outside import_data, or inside one of its
\* processEvents calls
UIEvent ==
    /\ ~Running \/ (AtYield /\ events < MaxYieldEvents)
    /\ events' = IF Running THEN events + 1 ELSE events

\* a variant that shows every row of the dataset
update_preview_all_rows(d, sel, pv) ==
    IF PreviewRuns(d, sel)
    THEN [key |-> sel.current,
          src |-> Get(d, sel.current).src,
          sheet |-> Get(d, sel.current).sheet,
          cols |-> Get(d, sel.current).cols,
          rows |-> Get(d, sel.current).nrows,
          norm |-> Get(d, sel.current).norm]
    ELSE pv

\* preview_table after update_preview
update_preview(d, sel, pv) ==
    IF PreviewRuns(d, sel)
    THEN [key |-> sel.current,
          src |-> Get(d, sel.current).src,
          sheet |-> Get(d, sel.current).sheet,
          cols |-> Get(d, sel.current).cols,
          rows |-> Min(PreviewLimit, Get(d, sel.current).nrows),
          norm |-> Get(d, sel.current).norm]
    ELSE pv

\* the line update_preview logs
PreviewLines(d, sel) ==
    IF PreviewRuns(d, sel)
    THEN <<Line("info", <<Lit("Updated preview for sheet: "),
                           Arg("name", Text(sel.current))>>)>>
    ELSE <<>>

\* df_selector after clear() and addItems(keys): the first item is current
Refilled(keys) ==
    [items |-> keys, current |-> IF keys = <<>> THEN <<>> ELSE keys[1]]

CsvKey == <<"C","S","V"," ","D","a","t","a">>

\* self.dataframes when load_file(f.path) ends
WinDataframes(f) ==
    IF IsCsv(f.path)
    THEN (IF f.bad THEN <<>> ELSE <<[key |-> CsvKey, df |-> Dataset(f, 1)]>>)
    ELSE IF IsExcel(f.path) THEN PutAll(<<>>, SheetEntries(f, SheetsRead(f)))
    ELSE <<>>

\* whether a read raises inside load_file(f.path)
WinRaises(f) == (IsCsv(f.path) \/ IsExcel(f.path)) /\ f.bad

\* the lines load_file(f.path) logs
WinLoadLines(f) ==
    IF WinRaises(f)
    THEN <<Line("info", <<Lit("Error loading file: "), Arg("cause", ReadError(f))>>)>>
    ELSE (IF IsCsv(f.path)
          THEN <<Line("info", <<Lit("Loaded CSV file: "), Arg("path", Text(f.path))>>)>>
          ELSE IF IsExcel(f.path)
          THEN <<Line("info", <<Lit("Loaded Excel file: "), Arg("path", Text(f.path))>>)>>
          ELSE <<>>)
         \* addItems makes the first item current, which runs update_preview;
         \* load_file then calls update_preview itself
         \o PreviewLines(WinDataframes(f), Refilled(Keys(WinDataframes(f))))
         \o PreviewLines(WinDataframes(f), Refilled(Keys(WinDataframes(f))))

WinDialogs(f) ==
    IF WinRaises(f)
    THEN <<[kind |-> "critical", title |-> "Error",
            parts |-> <<Lit("Failed to load file: "), Arg("cause", ReadError(f))>>]>>
    ELSE <<>>

\* what a handler that starts now has logged or shown: a handler run from
\* processEvents inside import_data adds to what import_data has logged
Since(old, new) == IF Running THEN old \o new ELSE new

\* what load_file(f.path) does, for each input file
WinLoad ==
    [f \in Files |->
        [dataframes |-> WinDataframes(f),
         raises |-> WinRaises(f),
         selector |-> Refilled(Keys(WinDataframes(f))),
         lines |-> WinLoadLines(f),
         dialogs |-> WinDialogs(f)]]

\* the body of MainWindow.load_file(f.path)
load_file(f) ==
    /\ last_call' = [fn |-> "MainWindow.load_file", path |-> f.path]
    /\ dataframes' = WinLoad[f].dataframes
    /\ selector' = IF WinLoad[f].raises THEN selector ELSE WinLoad[f].selector
    /\ preview' = IF WinLoad[f].raises THEN preview
                  ELSE update_preview(WinLoad[f].dataframes, WinLoad[f].selector, preview)
    /\ logged' = Since(logged, WinLoad[f].lines)
    /\ dialogs' = Since(dialogs, WinLoad[f].dialogs)

\* MainWindow.load_file called on its own, as the tests call it
LoadFile(f) ==
    /\ loader = "MainWindow"
    /\ ~Running
    /\ load_file(f)
    /\ UNCHANGED <<import_btn, bar_visible, dh_vars, rf_result, op_vars, db, loader, applied, dbc_vars>>

\* MainWindow.select_file with file f chosen in the dialog
SelectFile(f) ==
    /\ UIEvent
    /\ import_btn' = TRUE
    /\ load_file(f)
    /\ UNCHANGED <<bar_visible, dh_vars, rf_result, pc, current_sheet, df, table_name,
                   engine, i, rows_processed, progress, calls, table_before, imports, suspended,
                   db, loader, applied, dbc_vars>>

\* the user makes another item of df_selector current: update_preview runs
SelectSheet(k) ==
    /\ UIEvent
    /\ k \in 1..Len(selector.items)
    /\ selector.items[k] # selector.current
    /\ selector' = [selector EXCEPT !.current = selector.items[k]]
    /\ preview' = update_preview(dataframes, selector', preview)
    /\ logged' = Since(logged, PreviewLines(dataframes, selector'))
    /\ UNCHANGED <<dataframes, import_btn, bar_visible, dialogs, dh_vars, rf_result,
                   pc, current_sheet, df, table_name, engine, i, rows_processed,
                   progress, calls, table_before, imports, suspended, db, loader, applied, dbc_vars, last_call>>

(***************************************************************************)
(* The backend: what DataFrame.to_sql does to a table.                     *)
(***************************************************************************)
\* rows lo .. hi-1 of dataset d
Chunk(d, lo, hi) == [src |-> d.src, sheet |-> d.sheet, lo |-> lo, hi |-> hi, norm |-> d.norm]
Rows(d, lo, hi) == IF hi > lo THEN <<Chunk(d, lo, hi)>> ELSE <<>>

\* the rows a table holds before the first import
OldTable == <<[src |-> "old", sheet |-> 0, lo |-> 0, hi |-> OldRows, norm |-> TRUE]>>

\* to_sql(..., if_exists='replace'): the table is dropped and holds all of d
ToSqlReplace(t, d) == Rows(d, 0, d.nrows)
\* to_sql(..., if_exists='append') of rows lo .. hi-1 of d
ToSqlAppend(t, d, lo, hi) == t \o Rows(d, lo, hi)

\* the number of rows a table holds
RECURSIVE RowCount(_)
RowCount(t) == IF t = <<>> THEN 0 ELSE (Head(t).hi - Head(t).lo) + RowCount(Tail(t))

\* the error texts a backend call can raise
Causes == {"connection lost", "constraint violated"}

\* the names of the tables an import can write
SheetKeys ==
    {CsvKey} \cup {f.sheets[k].name : f \in {BookFile, BrokenBookFile}, k \in 1..2}
TableNames == {clean_column_name(k) : k \in SheetKeys}

Call(op, lo, hi, ok) == [op |-> op, lo |-> lo, hi |-> hi, ok |-> ok]

(***************************************************************************)
(* MainWindow.import_data, one action per backend call                     *)
(***************************************************************************)
NoDataset == [src |-> "", sheet |-> 0, cols |-> <<>>, nrows |-> 0, norm |-> FALSE]

\* the outer handler: except Exception as e (lines 525-533)
PrepareFailed(cause, lines) ==
    /\ logged' = lines \o <<Line("info", <<Lit("Error preparing import: "),
                                           Arg("cause", cause)>>)>>
    /\ dialogs' = Append(dialogs,
           [kind |-> "critical", title |-> "Import Error",
            parts |-> <<Lit("Failed to prepare data for import: "), Arg("cause", cause)>>])
    /\ bar_visible' = FALSE
    /\ import_btn' = TRUE
    /\ pc' = "Failed"

\* the inner handler and its finally (lines 512-523); parts is str(e)
ImportFailed(parts, lines) ==
    /\ logged' = lines \o <<Line("info", <<Lit("Error during import: ")>> \o parts)>>
    /\ dialogs' = Append(dialogs,
           [kind |-> "critical", title |-> "Import Error",
            parts |-> <<Lit("Failed to import data: ")>> \o parts])
    /\ bar_visible' = FALSE
    /\ import_btn' = TRUE
    /\ pc' = "Failed"

\* a variant without the check that the selected name is loaded
ImportCallUnchecked ==
    /\ imports' = imports + 1
    /\ progress' = <<0>>
    /\ calls' = <<>>
    /\ current_sheet' = selector.current
    /\ i' = 0
    /\ rows_processed' = 0
    /\ engine' = "None"
    /\ df' = IF HasKey(dataframes, selector.current)
             THEN [Get(dataframes, selector.current) EXCEPT
                      !.cols = CleanColumns(Get(dataframes, selector.current).cols)]
             ELSE NoDataset
    /\ dataframes' = IF HasKey(dataframes, selector.current)
                     THEN Put(dataframes, selector.current, df') ELSE dataframes
    /\ table_name' = clean_column_name(selector.current)
    /\ logged' = <<>>
    /\ dialogs' = <<>>
    /\ bar_visible' = TRUE
    /\ import_btn' = FALSE
    /\ pc' = "Connecting"
    /\ table_before' = IF HasKey(dataframes, selector.current)
                       THEN db[clean_column_name(selector.current)] ELSE <<>>
    /\ UNCHANGED <<selector, preview, dh_vars, rf_result, db, loader, applied, dbc_vars, last_call>>

\* lines 441-457 of import_data: the selection check, the name cleaning
ImportCall ==
    /\ imports' = imports + 1
    /\ progress' = <<0>>
    /\ calls' = <<>>
    /\ current_sheet' = selector.current
    /\ i' = 0
    /\ rows_processed' = 0
    /\ engine' = "None"
    /\ IF ~HasKey(dataframes, selector.current)
       THEN /\ dialogs' = <<[kind |-> "critical", title |-> "Import Error",
                             parts |-> <<Lit("Failed to prepare data for import: "),
                                         Lit("Sheet "), Arg("name", Text(selector.current)),
                                         Lit(" not found in loaded data")>>]>>
            /\ logged' = <<Line("info", <<Lit("Error preparing import: "),
                                          Lit("Sheet "), Arg("name", Text(selector.current)),
                                          Lit(" not found in loaded data")>>)>>
            /\ bar_visible' = FALSE
            /\ import_btn' = TRUE
            /\ pc' = "Failed"
            /\ df' = NoDataset
            /\ table_name' = <<>>
            /\ UNCHANGED dataframes
       ELSE /\ df' = [Get(dataframes, selector.current) EXCEPT
                         !.cols = CleanColumns(Get(dataframes, selector.current).cols)]
            /\ dataframes' = Put(dataframes, selector.current, df')
            /\ table_name' = clean_column_name(selector.current)
            /\ logged' = <<>>
            /\ dialogs' = <<>>
            /\ bar_visible' = TRUE
            /\ import_btn' = FALSE
            /\ pc' = "Connecting"
    /\ table_before' = IF HasKey(dataframes, selector.current)
                       THEN db[clean_column_name(selector.current)] ELSE <<>>
    /\ UNCHANGED <<selector, preview, dh_vars, rf_result, db, loader, applied, dbc_vars, last_call>>

\* the import button is clicked while no import_data call is running
ImportStart ==
    /\ ~Running
    /\ import_btn
    /\ imports < MaxImports
    /\ ImportCall
    /\ events' = 0
    /\ UNCHANGED suspended

\* the locals of the running import_data call
Frame ==
    [pc |-> pc, current_sheet |-> current_sheet, df |-> df, table_name |-> table_name,
     engine |-> engine, i |-> i, rows_processed |-> rows_processed,
     progress |-> progress, calls |-> calls, table_before |-> table_before]

\* the import button is clicked, and the click handled, inside a processEvents
\* call of a running import_data: the handler import_data is called again, on
\* top of the running call
ImportReenter ==
    /\ AtYield
    /\ import_btn
    /\ imports < MaxImports + MaxNested
    /\ suspended' = Append(suspended, Frame)
    /\ ImportCall
    /\ UNCHANGED events

\* the nested import_data call returns to the processEvents call it was
\* started from: the suspended call goes on with its own locals
ImportReturn ==
    /\ pc \in {"Done", "Failed"}
    /\ suspended # <<>>
    /\ LET top == suspended[Len(suspended)]
       IN /\ pc' = top.pc
          /\ current_sheet' = top.current_sheet
          /\ df' = top.df
          /\ table_name' = top.table_name
          /\ engine' = top.engine
          /\ i' = top.i
          /\ rows_processed' = top.rows_processed
          /\ progress' = top.progress
          /\ calls' = top.calls
          /\ table_before' = top.table_before
    /\ suspended' = SubSeq(suspended, 1, Len(suspended) - 1)
    /\ UNCHANGED <<imports, events, win_vars, dh_vars, rf_result, db, loader, applied,
                   dbc_vars, last_call>>

\* a variant that goes on to table creation whatever the connection attempt did
ConnectUnchecked(made, opens, cause) ==
    /\ pc = "Connecting"
    /\ engine' = IF made = "engine" THEN "engine" ELSE "None"
    /\ calls' = calls \o <<Call("create_engine", 0, 0, made # "raises"),
                            Call("connect", 0, 0, made = "engine" /\ opens)>>
    /\ pc' = "TableCreating"
    /\ UNCHANGED <<dataframes, selector, preview, current_sheet, df, table_name,
                   i, rows_processed, progress, table_before, imports, suspended, events,
                   dh_vars, rf_result, db, loader, applied, dbc_vars, last_call,
                   logged, dialogs, bar_visible, import_btn>>

\* lines 459-473: DatabaseConfig.connect, the engine check, engine.connect()
\* made is what create_engine does: it returns an engine, returns None or raises
Connect(made, opens, cause) ==
    /\ pc = "Connecting"
    /\ engine' = IF made = "engine" THEN "engine" ELSE "None"
    /\ UNCHANGED <<dataframes, selector, preview, current_sheet, df, table_name,
                   i, rows_processed, progress, table_before, imports, suspended, events,
                   dh_vars, rf_result, db, loader, applied, dbc_vars, last_call>>
    /\ IF made = "raises"
       THEN /\ calls' = Append(calls, Call("create_engine", 0, 0, FALSE))
            /\ PrepareFailed("Failed to establish database connection",
                   logged \o <<Line("error", <<Lit("Database connection error: "),
                                               Arg("cause", cause)>>)>>)
       ELSE IF made = "None"
       THEN /\ calls' = Append(calls, Call("create_engine", 0, 0, TRUE))
            /\ PrepareFailed("Database engine not properly initialized",
                   logged \o <<Line("info", <<Lit("Successfully connected to database")>>)>>)
       ELSE LET lines == logged
                    \o <<Line("info", <<Lit("Successfully connected to database")>>),
                         Line("info", <<Lit("Starting import of "),
                                        Arg("rows", ToString(df.nrows)),
                                        Lit(" rows to table "),
                                        Arg("table", Text(table_name))>>)>>
            IN IF opens
               THEN /\ calls' = calls \o <<Call("create_engine", 0, 0, TRUE),
                                           Call("connect", 0, 0, TRUE)>>
                    /\ logged' = lines
                    /\ pc' = "TableCreating"
                    /\ UNCHANGED <<dialogs, bar_visible, import_btn>>
               ELSE /\ calls' = calls \o <<Call("create_engine", 0, 0, TRUE),
                                           Call("connect", 0, 0, FALSE)>>
                    /\ ImportFailed(<<Arg("cause", cause)>>, lines)

\* a variant that reports success whatever the write did
create_table_returns_true(written) == TRUE

\* DatabaseConfig.create_table_from_df(df, table_name): what it returns
create_table_returns(written) == written

\* lines 475-480: create_table_from_df, the progress value 20, processEvents.
\* A to_sql call runs in one transaction: when it raises it has written nothing.
CreateTable(written, cause) ==
    /\ pc = "TableCreating"
    /\ df' = [df EXCEPT !.cols = ReplaceSpaceDashColumns(df.cols)]
    /\ dataframes' = Put(dataframes, current_sheet, df')
    /\ calls' = Append(calls, Call("replace", 0, df.nrows, written))
    /\ db' = [db EXCEPT ![table_name] =
                 IF written THEN ToSqlReplace(db[table_name], Normalized(df))
                 ELSE db[table_name]]
    /\ UNCHANGED <<selector, preview, current_sheet, table_name, engine, i,
                   rows_processed, table_before, imports, suspended, events, dh_vars, rf_result,
                   loader, applied, dbc_vars, last_call>>
    /\ IF create_table_returns(written)
       THEN /\ logged' = Append(logged,
                   Line("info", <<Lit("Successfully created table: "),
                                  Arg("table", Text(table_name))>>))
            /\ progress' = Append(progress, TableCreatedProgress)
            /\ pc' = "Writing"
            /\ UNCHANGED <<dialogs, bar_visible, import_btn>>
       ELSE /\ ImportFailed(<<Lit("Failed to create table "),
                              Arg("table", Text(table_name))>>,
                   Append(logged,
                       Line("error", <<Lit("Error creating table "),
                                       Arg("table", Text(table_name)),
                                       Lit(": "), Arg("cause", cause)>>)))
            /\ UNCHANGED progress

\* a variant whose start index does not advance
NextStartStuck(start) == start

\* range(0, total_rows, 1000): the start index after start
NextStart(start) == start + BatchSize

\* a variant without the min
BatchEndUnclamped(start, total) == start + BatchSize

\* df.iloc[i:min(i + 1000, total_rows)]: the end (exclusive) of the batch at start
BatchEnd(start, total) == Min(start + BatchSize, total)

\* a variant that reports the plain percentage
ProgressAsFraction(rows, total) == (rows * 100) \div total

\* a variant that adds the whole percentage to the 20 of the table creation
ProgressUnscaled(rows, total) == (rows * 100) \div total + TableCreatedProgress

\* int((rows_processed / total_rows * 80) + 20)
ProgressAfter(rows, total) == (rows * ProgressSpan) \div total + TableCreatedProgress

\* Exception(f"Error importing batch: {str(e)}")
BatchError(table, start, cause) == <<Lit("Error importing batch: "), Arg("cause", cause)>>

\* a variant that skips a batch whose write failed and goes on with the next
WriteBatchSkipsFailed(written, cause) ==
    /\ pc = "Writing"
    /\ i < df.nrows
    /\ calls' = Append(calls, Call("append", i, BatchEnd(i, df.nrows), written))
    /\ db' = [db EXCEPT ![table_name] =
                 IF written THEN ToSqlAppend(db[table_name], df, i, BatchEnd(i, df.nrows))
                 ELSE db[table_name]]
    /\ rows_processed' = IF written THEN rows_processed + (BatchEnd(i, df.nrows) - i)
                         ELSE rows_processed
    /\ progress' = IF written THEN Append(progress, ProgressAfter(rows_processed', df.nrows))
                   ELSE progress
    /\ i' = NextStart(i)
    /\ UNCHANGED <<dataframes, selector, preview, current_sheet, df, table_name,
                   engine, table_before, imports, suspended, events, dh_vars, rf_result,
                   loader, applied, dbc_vars, last_call, pc, logged, dialogs, bar_visible, import_btn>>

\* lines 486-500: one iteration of the batch loop
WriteBatch(written, cause) ==
    /\ pc = "Writing"
    /\ i < df.nrows
    /\ calls' = Append(calls, Call("append", i, BatchEnd(i, df.nrows), written))
    /\ UNCHANGED <<dataframes, selector, preview, current_sheet, df, table_name,
                   engine, table_before, imports, suspended, events, dh_vars, rf_result,
                   loader, applied, dbc_vars, last_call>>
    /\ IF written
       THEN /\ db' = [db EXCEPT ![table_name] =
                         ToSqlAppend(db[table_name], df, i, BatchEnd(i, df.nrows))]
            /\ rows_processed' = rows_processed + (BatchEnd(i, df.nrows) - i)
            /\ progress' = Append(progress, ProgressAfter(rows_processed', df.nrows))
            /\ i' = NextStart(i)
            /\ UNCHANGED <<pc, logged, dialogs, bar_visible, import_btn>>
       ELSE /\ ImportFailed(BatchError(table_name, i, cause), logged)
            /\ UNCHANGED <<db, rows_processed, progress, i>>

\* lines 502-523: the loop has ended: 100 %, the success line and message
Finish ==
    /\ pc = "Writing"
    /\ i >= df.nrows
    /\ progress' = Append(progress, 100)
    /\ logged' = Append(logged,
           Line("info", <<Lit("Successfully imported "), Arg("rows", ToString(df.nrows)),
                          Lit(" rows to table "), Arg("table", Text(table_name))>>))
    /\ dialogs' = Append(dialogs,
           [kind |-> "information", title |-> "Success",
            parts |-> <<Lit("Import Completed Successfully!")>>])
    /\ bar_visible' = FALSE
    /\ import_btn' = TRUE
    /\ pc' = "Done"
    /\ UNCHANGED <<dataframes, selector, preview, current_sheet, df, table_name,
                   engine, i, rows_processed, calls, table_before, imports, suspended, events,
                   dh_vars, rf_result, db, loader, applied, dbc_vars, last_call>>

(***************************************************************************)
(* Specifications.                                                         *)
(***************************************************************************)
(***************************************************************************)
(* importer.py: the names import_dataframes hands to to_sql                *)
(***************************************************************************)
\* re.sub(r"\s+", "_", ...): every run of blanks becomes one underscore
RECURSIVE BlanksToUnderscore(_)
BlanksToUnderscore(s) ==
    IF s = <<>> THEN <<>>
    ELSE IF Head(s) = " "
         THEN <<"_">> \o BlanksToUnderscore(LStripBlank(s))
         ELSE <<Head(s)>> \o BlanksToUnderscore(Tail(s))

sanitize_table_name(name) == BlanksToUnderscore(StripBlank(name))
sanitize_column_names(columns) == Map(sanitize_table_name, columns)

(***************************************************************************)
(* DatabaseConfig (connect, create_table_from_df) and import_dataframes,   *)
(* called on their own, one call after the other.                          *)
(***************************************************************************)
\* self.engine: None, or the engine that call number n created
NoEngine == [made |-> FALSE, id |-> 0]
EngineOf(n) == [made |-> TRUE, id |-> n]

\* call number n: its function and argument, what it returned, whether it
\* raised, the lines it logged and the to_sql calls it made
Outcome(n, fn, arg, ret, raised, lines, writes) ==
    [n |-> n, fn |-> fn, arg |-> arg, ret |-> ret, raised |-> raised,
     lines |-> lines, writes |-> writes]
NoOutcome == Outcome(0, "none", <<>>, FALSE, FALSE, <<>>, <<>>)

ToSql(table, ok) == [table |-> table, ok |-> ok]

\* DatabaseConfig.connect(); create_engine returns an engine or raises
DbConnect(made, cause) ==
    /\ loader = "DatabaseConfig"
    /\ dbc_call.n < MaxCalls
    /\ IF made = "raises"
       THEN /\ db_config' = db_config
            /\ dbc_call' = Outcome(dbc_call.n + 1, "connect", <<>>, FALSE, FALSE,
                   <<Line("error", <<Lit("Database connection error: "),
                                     Arg("cause", cause)>>)>>, <<>>)
       ELSE /\ db_config' = [db_config EXCEPT !.engine = EngineOf(dbc_call.n + 1)]
            /\ dbc_call' = Outcome(dbc_call.n + 1, "connect", <<>>, TRUE, FALSE,
                   <<Line("info", <<Lit("Successfully connected to database")>>)>>, <<>>)
    /\ UNCHANGED <<loader, last_call, dh_vars, rf_result, win_vars, op_vars, db, applied>>

\* the frames create_table_from_df is called on, and the names of their tables
DbFrames == {Dataset(f, 1) : f \in {CsvFile(1), UpperCsvFile, BookFile}}
DbTableNames == {clean_column_name(CsvKey), <<"s","h","e","e","t","1">>}

\* DatabaseConfig.create_table_from_df(d, name).  labels tells what the column
\* labels of the frame are: strings (read under a header row), or integers (a
\* frame built from rows alone, pd.DataFrame(rows): 0, 1, ...), on which
\* col.replace raises AttributeError at line 31, before the try.
\* to_sql raises when told to (written is false) and when the engine is None.
DbCreateTable(d, labels, name, written, cause) ==
    /\ loader = "DatabaseConfig"
    /\ dbc_call.n < MaxCalls
    /\ db_config' = db_config
    /\ UNCHANGED <<loader, last_call, dh_vars, rf_result, win_vars, op_vars, applied>>
    /\ LET arg == <<[key |-> name, df |-> d]>>
           ok == written /\ db_config.engine.made
           cleaned == [d EXCEPT !.cols = ReplaceSpaceDashColumns(d.cols)]
       IN IF labels = "int"
          THEN /\ dbc_call' = Outcome(dbc_call.n + 1, "create_table_from_df", arg,
                                      FALSE, TRUE, <<>>, <<>>)
               /\ db' = db
          ELSE /\ db' = [db EXCEPT ![name] =
                            IF ok THEN ToSqlReplace(db[name], Normalized(cleaned))
                            ELSE db[name]]
               /\ dbc_call' = Outcome(dbc_call.n + 1, "create_table_from_df", arg,
                      create_table_returns(ok), FALSE,
                      <<IF create_table_returns(ok)
                        THEN Line("info", <<Lit("Successfully created table: "),
                                            Arg("table", Text(name))>>)
                        ELSE Line("error", <<Lit("Error creating table "),
                                             Arg("table", Text(name)),
                                             Lit(": "), Arg("cause", cause)>>)>>,
                      <<ToSql(name, ok)>>)

\* a workbook with the sheets 'My Sheet' and 'My_Sheet'
TwinBookFile ==
    [id |-> "twin",
     path |-> <<"t","w","i","n",".","x","l","s","x">>,
     sheets |-> <<Sheet(<<"M","y"," ","S","h","e","e","t">>, ColsA, 2),
                  Sheet(<<"M","y","_","S","h","e","e","t">>, ColsPadded, 3)>>,
     bad |-> FALSE, failAt |-> 0]

\* the files ImporterGUI.load_file reads and hands to import_dataframes
ImporterFiles == {CsvFile(1), BookFile, TwinBookFile}
\* the names of the tables import_dataframes writes
ImporterTables ==
    UNION {{sanitize_table_name(read_file(f).value[k].key) : k \in 1..Len(f.sheets)} :
              f \in ImporterFiles}

\* the number of to_sql calls import_dataframes makes on mapping m when the
\* call for entry failAt raises (0: none raises), and how many of them succeed
ImportAttempts(m, failAt) == IF failAt = 0 THEN Len(m) ELSE failAt
ImportWritten(m, failAt) == IF failAt = 0 THEN Len(m) ELSE failAt - 1

\* the tables after the to_sql calls for the first n entries of m
RECURSIVE ImportTables(_, _, _)
ImportTables(t, m, n) ==
    IF n = 0 THEN t
    ELSE LET b == ImportTables(t, m, n - 1)
             name == sanitize_table_name(m[n].key)
         IN [b EXCEPT ![name] = ToSqlReplace(b[name], m[n].df)]

\* summary.append(f"Imported {len(df)} rows into '{table_name}'")
SummaryLine(e) ==
    Line("info", <<Lit("Imported "), Arg("rows", ToString(e.df.nrows)),
                   Lit(" rows into "), Arg("table", Text(sanitize_table_name(e.key)))>>)

\* import_dataframes(read_file(f.path)): the loop over the mapping, then
\* log_summary(summary), which is not reached when a to_sql call raises
ImportDataframes(f, failAt, cause) ==
    /\ loader = "importer"
    /\ dbc_call.n < MaxCalls
    /\ LET m == read_file(f).value
       IN /\ failAt \in 0..Len(m)
          /\ db' = ImportTables(db, m, ImportWritten(m, failAt))
          /\ dbc_call' = Outcome(dbc_call.n + 1, "import_dataframes", m,
                 FALSE, failAt # 0,
                 IF failAt = 0 THEN Map(SummaryLine, m) ELSE <<>>,
                 [k \in 1..ImportAttempts(m, failAt) |->
                     ToSql(sanitize_table_name(m[k].key), k # failAt)])
    /\ UNCHANGED <<loader, last_call, dh_vars, rf_result, win_vars, op_vars, applied,
                   db_config>>

(***************************************************************************)
(* The functions called on their own, on every name up to a length.        *)
(***************************************************************************)
\* an upper-case letter, a lower-case letter, a digit, the underscore, a
\* blank, a dash and a letter outside ASCII
NameChars == {"A", "b", "7", "_", " ", "-", "é"}

RECURSIVE NamesOfLen(_)
NamesOfLen(n) ==
    IF n = 0 THEN {<<>>}
    ELSE {Append(x, c) : x \in NamesOfLen(n - 1), c \in NameChars}

Names == UNION {NamesOfLen(n) : n \in 0..MaxNameLen}

\* no function called yet; x is the input at hand, a name or a cell
Input(kind, x) == [fn |-> "none", kind |-> kind, arg |-> x, out |-> x]
NoApplication == Input("name", <<>>)

\* clean_column_name called on the input, or on its own result
CleanColumnName ==
    /\ loader = "functions"
    /\ applied.kind = "name"
    /\ applied.fn \in {"none", "clean_column_name"}
    /\ applied' = [fn |-> "clean_column_name", kind |-> "name", arg |-> applied.out,
                   out |-> clean_column_name(applied.out)]
    /\ UNCHANGED <<loader, last_call, dh_vars, rf_result, win_vars, op_vars, db, dbc_vars>>

\* sanitize_table_name called on the input
SanitizeTableName ==
    /\ loader = "functions"
    /\ applied.kind = "name"
    /\ applied.fn = "none"
    /\ applied' = [fn |-> "sanitize_table_name", kind |-> "name", arg |-> applied.arg,
                   out |-> sanitize_table_name(applied.arg)]
    /\ UNCHANGED <<loader, last_call, dh_vars, rf_result, win_vars, op_vars, db, dbc_vars>>

(***************************************************************************)
(* Null normalization of one cell: the text of a cell in a file is parsed  *)
(* by pd.read_csv / pd.read_excel; clean_dataframe and create_table_from_df*)
(* work on the parsed values.                                              *)
(***************************************************************************)
FileCell(t) == [kind |-> "text", v |-> t]
Value(t) == [kind |-> "value", v |-> t]
NaN == [kind |-> "NaN", v |-> ""]
NaT == [kind |-> "NaT", v |-> ""]
None == [kind |-> "None", v |-> ""]

\* texts pandas reads as NaN when keep_default_na is true (its default), among
\* them these
DefaultNaValues == {"", "NA", "NULL", "N/A", "n/a", "NaN", "nan", "null", "#N/A"}
\* na_values of DataHandler.load_file, of read_file and of MainWindow.load_file
DHNaValues == {"", "NA", "NULL"}
RFNaValues == {""}
WinNaValues == {}

\* the value the reader gives for a cell; a value already in memory stays
ParseCell(na_values, c) ==
    IF c.kind # "text" THEN c
    ELSE IF c.v \in na_values \cup DefaultNaValues THEN NaN
    ELSE Value(c.v)

\* pd.notnull
NotNull(c) == c.kind = "value"
\* df.where(pd.notnull(df), None)
WhereNotNull(c) == IF NotNull(c) THEN c ELSE None
\* df.replace({pd.NaT: None, np.nan: None})
ReplaceNaNaT(c) == IF c.kind \in {"NaN", "NaT"} THEN None ELSE c
\* the replace and where steps of create_table_from_df
CreateTableCell(c) == WhereNotNull(ReplaceNaNaT(c))

\* what a cell becomes on its way to the table, in each flow
Normalize(flow, c) ==
    IF flow = "read_file" THEN WhereNotNull(ParseCell(RFNaValues, c))
    ELSE IF flow = "DataHandler" THEN CreateTableCell(ParseCell(DHNaValues, c))
    ELSE CreateTableCell(ParseCell(WinNaValues, c))

Flows == {"read_file", "DataHandler", "MainWindow"}

\* the cells the normalization is called on
CellTexts == {"", "NA", "NULL", "n/a", "nan", "0", "false", "abc", " "}
Cells == {FileCell(t) : t \in CellTexts} \cup {NaN, NaT, None}

NormalizeCell(flow) ==
    /\ loader = "functions"
    /\ applied.kind = "cell"
    /\ applied.fn = "none"
    /\ applied' = [fn |-> "normalize", kind |-> "cell",
                   arg |-> [flow |-> flow, cell |-> applied.arg],
                   out |-> Normalize(flow, applied.arg)]
    /\ UNCHANGED <<loader, last_call, dh_vars, rf_result, win_vars, op_vars, db, dbc_vars>>

InitialPreview ==
    [key |-> <<>>, src |-> "", sheet |-> 0, cols |-> <<>>, rows |-> 0, norm |-> FALSE]

\* the backend before the first import: the tables of the CSV key and of
\* Sheet1 exist and hold rows, the other tables do not exist
InitialTables ==
    [n \in TableNames \cup ImporterTables |->
        IF n \in {clean_column_name(CsvKey), <<"s","h","e","e","t","1">>}
        THEN OldTable ELSE <<>>]

\* the state after DataHandler(logger) and MainWindow(logger) are constructed
Constructed ==
    /\ dh_dataframes = <<>>
    /\ dh_result = NoCall
    /\ dh_logged = <<>>
    /\ rf_result = NoCall
    /\ dataframes = <<>>
    /\ selector = [items |-> <<>>, current |-> <<>>]
    /\ preview = InitialPreview
    /\ import_btn = FALSE
    /\ bar_visible = FALSE
    /\ logged = <<>>
    /\ dialogs = <<>>
    /\ pc = "Idle"
    /\ current_sheet = <<>>
    /\ df = NoDataset
    /\ table_name = <<>>
    /\ engine = "None"
    /\ i = 0
    /\ rows_processed = 0
    /\ progress = <<>>
    /\ calls = <<>>
    /\ table_before = <<>>
    /\ last_call = [fn |-> "none", path |-> <<>>]
    /\ imports = 0
    /\ events = 0
    /\ suspended = <<>>
    /\ db = InitialTables
    /\ db_config = [engine |-> NoEngine]
    /\ dbc_call = NoOutcome

Init ==
    /\ loader = "MainWindow"
    /\ applied = NoApplication
    /\ Constructed

\* the loaders, each called on the input files one call after the other
LoaderInit ==
    /\ loader \in {"DataHandler", "read_file", "MainWindow"}
    /\ applied = NoApplication
    /\ Constructed

\* the main window: files are selected, sheets chosen, datasets imported
Next ==
    \/ \E f \in Files : SelectFile(f)
    \/ \E k \in 1..2 : SelectSheet(k)
    \/ ImportStart
    \/ \E made \in {"engine", "None", "raises"}, opens \in BOOLEAN, cause \in Causes :
          Connect(made, opens, cause)
    \/ \E written \in BOOLEAN, cause \in Causes : CreateTable(written, cause)
    \/ \E written \in BOOLEAN, cause \in Causes : WriteBatch(written, cause)
    \/ Finish

Spec == Init /\ [][Next]_vars

\* a step of a running import_data call: a backend call that returns or
\* raises and the statements up to the next one, or the statements after the
\* loop
ImportStep ==
    \/ \E made \in {"engine", "None", "raises"}, opens \in BOOLEAN, cause \in Causes :
          Connect(made, opens, cause)
    \/ \E written \in BOOLEAN, cause \in Causes : CreateTable(written, cause)
    \/ \E written \in BOOLEAN, cause \in Causes : WriteBatch(written, cause)
    \/ Finish

\* the main window where a click on the import button is also handled inside
\* the processEvents calls of a running import_data; a nested call returns
\* before anything else happens
ReentrantNext ==
    \/ (suspended = <<>> \/ pc \notin {"Done", "Failed"}) /\ Next
    \/ ImportReenter
    \/ ImportReturn

ReentrantSpec == Init /\ [][ReentrantNext]_vars

\* import_data runs on the caller's thread: once called it goes on, each
\* backend call returns or raises, and processEvents returns when the pending
\* events are handled
FairSpec == Spec /\ WF_vars(ImportStep)

LoaderNext ==
    \/ \E f \in Files : DHLoadFile(f)
    \/ \E f \in Files : ReadFile(f)
    \/ \E f \in Files : LoadFile(f)

LoaderSpec == LoaderInit /\ [][LoaderNext]_vars

\* the functions, each called on one of the bounded inputs
FunctionsInit ==
    /\ loader = "functions"
    /\ \/ applied \in {Input("name", x) : x \in Names}
       \/ applied \in {Input("cell", c) : c \in Cells}
    /\ Constructed

FunctionsNext ==
    \/ CleanColumnName
    \/ SanitizeTableName
    \/ \E flow \in Flows : NormalizeCell(flow)

FunctionsSpec == FunctionsInit /\ [][FunctionsNext]_vars

\* DatabaseConfig and import_dataframes, each called a number of times
BackendInit ==
    /\ loader \in {"DatabaseConfig", "importer"}
    /\ applied = NoApplication
    /\ Constructed

BackendNext ==
    \/ \E made \in {"engine", "raises"}, cause \in Causes : DbConnect(made, cause)
    \/ \E d \in DbFrames, labels \in {"str", "int"}, name \in DbTableNames,
          written \in BOOLEAN, cause \in Causes :
          DbCreateTable(d, labels, name, written, cause)
    \/ \E f \in ImporterFiles, failAt \in 0..2, cause \in Causes :
          ImportDataframes(f, failAt, cause)

BackendSpec == BackendInit /\ [][BackendNext]_vars

(***************************************************************************)
(* Properties of one import operation.                                     *)
(***************************************************************************)
LastCall == calls[Len(calls)]
IsAppend(c) == c.op = "append"
IsWrite(c) == c.op \in {"replace", "append"}
\* the batch writes import_data has attempted, in order
Appends == SelectSeq(calls, IsAppend)

\* the operation has been started and has a target table
Started == pc # "Idle" /\ table_name # <<>>

\* t holds rows from .. to-1 of dataset d, each once, and nothing else
RECURSIVE Tiles(_, _, _, _)
Tiles(t, d, from, to) ==
    IF t = <<>> THEN from = to
    ELSE /\ Head(t).src = d.src
         /\ Head(t).sheet = d.sheet
         /\ Head(t).lo = from
         /\ Tiles(Tail(t), d, Head(t).hi, to)
HoldsExactly(t, d) == Tiles(t, d, 0, d.nrows)

\* a batch write of this operation has failed
BatchFailed == \E k \in 1..Len(calls) : calls[k].op = "append" /\ ~calls[k].ok

\* the connection attempt of this operation has failed
ConnectionFailed ==
    \/ \E k \in 1..Len(calls) : calls[k].op \in {"create_engine", "connect"} /\ ~calls[k].ok
    \/ calls # <<>> /\ engine = "None"

HasTag(parts, tag) == \E k \in 1..Len(parts) : parts[k].t = tag
IsSuccessLine(l) == l.parts[1] = Lit("Successfully imported ")
SuccessReported ==
    \/ \E k \in 1..Len(dialogs) : dialogs[k].kind = "information"
    \/ \E k \in 1..Len(logged) : IsSuccessLine(logged[k])

\* the error dialogs of the import operation that are on display
ImportErrors == SelectSeq(dialogs, LAMBDA d : d.title = "Import Error")

\* C1: after import_data ends in success for a dataset of N rows, the row
\* count of the target table equals N.
C1_RowCountAfterImport ==
    pc = "Done" => RowCount(db[table_name]) = df.nrows

\* C2: in every state during or after a replace-mode import the target table
\* holds exactly the old table's rows or exactly the new dataset's rows.
C2_ReplaceAtomic ==
    Started => \/ db[table_name] = table_before
               \/ HoldsExactly(db[table_name], df)

\* the backend calls made so far are in the order connection attempt, opened
\* connection, table creation, batch 1, batch 2, ...: each follows the success
\* of the one before it
InOrder(cs) ==
    \A k \in 1..Len(cs) :
        \/ cs[k].op = "create_engine" /\ k = 1
        \/ cs[k].op = "connect" /\ k = 2 /\ cs[1].op = "create_engine" /\ cs[1].ok
        \/ cs[k].op = "replace" /\ k = 3 /\ cs[2].op = "connect" /\ cs[2].ok
        \/ /\ cs[k].op = "append"
           /\ k > 3
           /\ cs[k - 1].ok
           /\ \/ cs[k - 1].op = "replace" /\ cs[k].lo = 0
              \/ cs[k - 1].op = "append" /\ cs[k].lo = cs[k - 1].hi

PhaseStep ==
    /\ calls' # calls => InOrder(calls')
    /\ imports' = imports =>
          /\ pc = "Idle" => pc' = "Idle"
          /\ pc = "Connecting" => pc' \in {"Connecting", "TableCreating", "Failed"}
          /\ pc = "TableCreating" => pc' \in {"TableCreating", "Writing", "Failed"}
          /\ pc = "Writing" => pc' \in {"Writing", "Done", "Failed"}
          /\ pc \in {"Done", "Failed"} => pc' = pc /\ calls' = calls /\ db' = db
          /\ calls' # calls =>
                Len(calls') >= Len(calls) /\ SubSeq(calls', 1, Len(calls)) = calls
    /\ imports' # imports =>
          /\ pc \in {"Idle", "Done", "Failed"}
          /\ pc' \in {"Connecting", "Failed"}
          /\ calls' = <<>>
          /\ db' = db
    /\ pc' = "TableCreating" /\ pc # "TableCreating" =>
          calls' # <<>> /\ calls'[Len(calls')].op = "connect" /\ calls'[Len(calls')].ok
    /\ db' # db => calls' # calls /\ IsWrite(calls'[Len(calls')]) /\ pc \in {"TableCreating", "Writing"}
    /\ pc' = "Done" /\ pc # "Done" =>
          /\ calls # <<>>
          /\ LastCall.ok
          /\ IsWrite(LastCall)
          /\ LastCall.hi = df.nrows

\* C3: one import operation moves through Idle, Connecting, TableCreating,
\* Writing (batch 1..N), Done in this order; any phase may go to Failed; once
\* Done or Failed the operation makes no further backend write.
C3_PhaseOrder == [][PhaseStep]_vars

C3_Witness ==
    /\ pc = "Done"
    /\ Len(calls) = 6
    /\ \A k \in 1..Len(calls) : calls[k].ok

\* the table after the writes of cs that succeeded, starting from t
RECURSIVE WrittenBy(_, _, _)
WrittenBy(cs, d, t) ==
    IF cs = <<>> THEN t
    ELSE WrittenBy(Tail(cs), d,
             IF ~Head(cs).ok THEN t
             ELSE IF Head(cs).op = "replace" THEN Rows(Normalized(d), 0, d.nrows)
             ELSE IF Head(cs).op = "append" THEN t \o Rows(d, Head(cs).lo, Head(cs).hi)
             ELSE t)

\* C4: when the write of batch i fails the import fails: the failed write is
\* the last backend call (batch i is not retried, no later batch is
\* attempted), no success is reported, and the rows written before it are
\* still in the table.
C4_FailedBatchAborts ==
    BatchFailed =>
        /\ pc = "Failed"
        /\ ~LastCall.ok
        /\ \A k \in 1..(Len(calls) - 1) : calls[k].ok
        /\ ~SuccessReported
        /\ db[table_name] = WrittenBy(calls, df, table_before)
        /\ RowCount(db[table_name]) = df.nrows + LastCall.lo

C4_Witness ==
    /\ BatchFailed
    /\ ImportErrors # <<>>
    /\ Len(Appends) = 3
    /\ RowCount(db[table_name]) = df.nrows + 2 * BatchSize

\* C5: the error with which an import fails on a batch write carries the
\* index of the failing batch, the table name and the underlying cause.
C5_BatchErrorCarriesIndex ==
    BatchFailed =>
        \A k \in 1..Len(ImportErrors) :
            /\ HasTag(ImportErrors[k].parts, "cause")
            /\ HasTag(ImportErrors[k].parts, "batch")
            /\ HasTag(ImportErrors[k].parts, "table")

\* C6: when the connection cannot be established (connect returns False, the
\* engine is None, or opening the connection raises), import_data fails
\* without calling create_table_from_df or writing a batch, and the target
\* table is left as it was.
C6_ConnectionFailureWritesNothing ==
    ConnectionFailed =>
        /\ pc = "Failed"
        /\ \A k \in 1..Len(calls) : ~IsWrite(calls[k])
        /\ db[table_name] = table_before

C6_Witness ==
    /\ ConnectionFailed
    /\ pc = "Failed"
    /\ db[table_name] = OldTable

\* ceil(n / BatchSize)
BatchCount(n) == (n + BatchSize - 1) \div BatchSize

\* C7: the batch loop writes ceil(N/1000) batches in increasing row order;
\* batch k covers the rows from 1000*k up to min(1000*(k+1), N), is non-empty
\* and has at most 1000 rows; every row is in exactly one batch.
C7_Batches ==
    /\ \A k \in 1..Len(Appends) :
          /\ Appends[k].lo = BatchSize * (k - 1)
          /\ Appends[k].hi = Min(BatchSize * k, df.nrows)
          /\ Appends[k].hi > Appends[k].lo
          /\ Appends[k].hi - Appends[k].lo <= BatchSize
    /\ Len(Appends) <= BatchCount(df.nrows)
    /\ pc = "Done" =>
          /\ Len(Appends) = BatchCount(df.nrows)
          /\ \A k \in 1..Len(Appends) : Appends[k].ok
          /\ Tiles([k \in 1..Len(Appends) |-> Chunk(df, Appends[k].lo, Appends[k].hi)],
                   df, 0, df.nrows)

C7_Witness ==
    /\ pc = "Done"
    /\ df.nrows = 2500
    /\ Appends = <<Call("append", 0, 1000, TRUE), Call("append", 1000, 2000, TRUE),
                   Call("append", 2000, 2500, TRUE)>>

\* the batch writes that succeeded
OkAppends == SelectSeq(Appends, LAMBDA c : c.ok)

\* C8 as stated: after each written batch the progress value is
\* rows_written / total_rows as a percentage (2500 rows: 40, 80, 100).
C8_ProgressIsFraction ==
    \A k \in 1..Len(OkAppends) :
        progress[2 + k] = (OkAppends[k].hi * 100) \div df.nrows

\* C8 as amended: the progress value is 0 at the start, 20 once the table is
\* created and 20 + floor(80 * rows_written / total_rows) after each written
\* batch (2500 rows: 52, 84, 100), and 100 at the end of a successful import.
C8_ProgressScaled ==
    /\ Started => progress[1] = 0
    /\ Len(progress) >= 2 => progress[2] = TableCreatedProgress
    /\ Len(progress) >= 2 + Len(OkAppends)
          \/ ~(\E k \in 1..Len(calls) : calls[k].op = "replace" /\ calls[k].ok)
    /\ \A k \in 1..Len(OkAppends) :
          progress[2 + k] = TableCreatedProgress + (OkAppends[k].hi * ProgressSpan) \div df.nrows
    /\ pc = "Done" /\ df.nrows = 2500 => progress = <<0, 20, 52, 84, 100, 100>>
    /\ pc = "Done" => progress[Len(progress)] = 100

C8_Witness ==
    /\ pc = "Done"
    /\ df.nrows = 2500
    /\ progress = <<0, 20, 52, 84, 100, 100>>

(***************************************************************************)
(* Properties of the loaders.                                              *)
(***************************************************************************)
\* the extension of p is none of .csv, .xls, .xlsx
Unsupported(p) == ~IsCsv(p) /\ ~IsExcel(p)

IsInfo(l) == l.level = "info"
IsCritical(d) == d.kind = "critical"

\* C9: loading a path whose extension is none of .csv, .xls, .xlsx fails with
\* an unsupported-format error in every loader: no dataset is produced, no
\* success line is logged, and the datasets accumulated before are unchanged.
C9_UnsupportedFails ==
    [][Unsupported(last_call'.path) =>
          /\ last_call'.fn = "DataHandler.load_file" =>
                /\ dh_result'.raised
                /\ dh_dataframes' = dh_dataframes
                /\ SelectSeq(dh_logged', IsInfo) = <<>>
          /\ last_call'.fn = "read_file" =>
                /\ rf_result'.raised
                /\ rf_result'.error = "Unsupported file type"
          /\ last_call'.fn = "MainWindow.load_file" =>
                /\ SelectSeq(dialogs', IsCritical) # <<>>
                /\ dataframes' = dataframes
                /\ logged' = <<>>]_vars

\* C10: DataHandler.load_file called with an unsupported extension does not
\* raise: it returns the dataframes mapping with exactly the keys and
\* datasets it had before the call, and logs neither an info nor an error line.
C10_DataHandlerUnsupportedNoOp ==
    [][(last_call'.fn = "DataHandler.load_file" /\ Unsupported(last_call'.path)) =>
          /\ ~dh_result'.raised
          /\ dh_result'.value = dh_dataframes
          /\ dh_dataframes' = dh_dataframes
          /\ dh_logged' = <<>>]_vars

C10_Witness ==
    /\ last_call.fn = "DataHandler.load_file"
    /\ Unsupported(last_call.path)
    /\ Len(dh_dataframes) >= 2
    /\ ~dh_result.raised
    /\ dh_result.value = dh_dataframes
    /\ dh_logged = <<>>

\* the input files at path p, and what they are called in a dataset
FilesAt(p) == {f \in Files : f.path = p}
IdsAt(p) == {f.id : f \in FilesAt(p)}

\* C11: when reading fails during DataHandler.load_file the call raises the
\* original error, logs exactly one error line with the path and the cause
\* and no success line, and leaves the dataframes mapping as it was before
\* the call.
C11_ReadFailureAddsNothing ==
    [][(last_call'.fn = "DataHandler.load_file" /\ dh_result'.raised) =>
          /\ \E f \in FilesAt(last_call'.path) : dh_result'.error = ReadError(f)
          /\ Len(dh_logged') = 1
          /\ dh_logged'[1].level = "error"
          /\ HasTag(dh_logged'[1].parts, "path")
          /\ HasTag(dh_logged'[1].parts, "cause")
          /\ dh_dataframes' = dh_dataframes]_vars

\* every dataset of mapping m was read from the file of the latest load call
FromLatest(m) == \A j \in 1..Len(m) : m[j].df.src \in IdsAt(last_call.path)

\* C12: the mapping a load call returns holds only datasets of the file
\* loaded by that call: no dataset registered by an earlier load call is in
\* the result of the latest one.
C12_ResultIsFresh ==
    /\ (last_call.fn = "DataHandler.load_file" /\ ~dh_result.raised) =>
          FromLatest(dh_result.value)
    /\ (last_call.fn = "read_file" /\ ~rf_result.raised) => FromLatest(rf_result.value)
    /\ last_call.fn = "MainWindow.load_file" => FromLatest(dataframes)

\* C13: a successful DataHandler.load_file only adds or overwrites keys: every
\* key registered before the call is still present, in its place, with its
\* dataset unchanged unless this call registered the same key.
C13_KeysPersist ==
    [][(last_call'.fn = "DataHandler.load_file" /\ ~dh_result'.raised) =>
          /\ Len(dh_dataframes') >= Len(dh_dataframes)
          /\ \A j \in 1..Len(dh_dataframes) :
                /\ dh_dataframes'[j].key = dh_dataframes[j].key
                /\ \/ dh_dataframes'[j].df = dh_dataframes[j].df
                   \/ dh_dataframes'[j].df.src \in IdsAt(last_call'.path)
          /\ dh_result'.value = dh_dataframes']_vars

C13_Witness ==
    /\ last_call.fn = "DataHandler.load_file"
    /\ ~dh_result.raised
    /\ Len(dh_dataframes) = 3
    /\ dh_dataframes[1].df.src = "csv0"
    /\ dh_dataframes[2].df.src = "book"
    /\ dh_dataframes[3].df.src = "book"
    /\ last_call.path = BookFile.path

SheetName(sh) == sh.name
\* the keys the datasets of file f are to be registered under
ExpectedKeys(f) == IF IsCsv(f.path) THEN <<Stem(f.path)>> ELSE Map(SheetName, f.sheets)
\* the keys of mapping m that hold datasets of file f, in order
LoadedKeys(m, f) == Keys(SelectSeq(m, LAMBDA e : e.df.src = f.id))
KeysAsExpected(m) ==
    \E f \in FilesAt(last_call.path) : ~f.bad /\ LoadedKeys(m, f) = ExpectedKeys(f)

\* C14: a successful load of a .csv file (extension matched without regard
\* to case) registers one key, the file's stem; of a workbook one key per
\* sheet, the sheet name as declared, in file order; in DataHandler.load_file,
\* read_file and MainWindow.load_file.
C14_KeysAreStemOrSheetNames ==
    (IsCsv(last_call.path) \/ IsExcel(last_call.path)) =>
        /\ (last_call.fn = "DataHandler.load_file" /\ ~dh_result.raised) =>
              KeysAsExpected(dh_result.value)
        /\ (last_call.fn = "read_file" /\ ~rf_result.raised) =>
              KeysAsExpected(rf_result.value)
        /\ (last_call.fn = "MainWindow.load_file" /\ dialogs = <<>>) =>
              KeysAsExpected(dataframes)

(***************************************************************************)
(* Properties of the name functions.                                       *)
(***************************************************************************)
IsAlnum(c) == IsUpper(c) \/ IsLower(c) \/ c \in Digits
Cleaned == applied.fn = "clean_column_name"

\* C15: clean_column_name is idempotent: cleaning a cleaned name gives the
\* cleaned name.
C15_Idempotent ==
    Cleaned => clean_column_name(applied.out) = applied.out

C15_Witness ==
    /\ Cleaned
    /\ applied.arg = <<"A", " ", "é">>
    /\ applied.out = <<"a">>

C17_NamesAreSanitized ==
    applied.fn \in {"clean_column_name", "sanitize_table_name"} =>
        \A k \in 1..Len(applied.out) : IsWordChar(applied.out[k])

\* the cells the normalization is to map to None
Absent == {FileCell(""), FileCell("NA"), FileCell("NULL"), NaN, NaT, None}

\* C18: null normalization maps the empty string, "NA", "NULL", NaN and NaT to
\* None and leaves every other cell unchanged, in every flow.
C18_NormalizeOnlyAbsent ==
    applied.fn = "normalize" =>
        IF applied.arg.cell \in Absent THEN applied.out = None
        ELSE applied.out = Value(applied.arg.cell.v)

(***************************************************************************)
(* Properties of the main window: normalization and preview.               *)
(***************************************************************************)
\* C19: in the main-window flow every cell the preview shows and every row
\* written to a table comes from the normalized dataset, never from the
\* dataset as parsed.
C19_NormalizedBeforeUse ==
    /\ preview.rows > 0 => preview.norm
    /\ \A n \in TableNames : \A k \in 1..Len(db[n]) : db[n][k].norm
\* a step in which update_preview runs: another sheet is selected, or a file
\* is selected and read without an error
PreviewStep ==
    /\ pc' = pc /\ calls' = calls /\ imports' = imports
    /\ \/ \E k \in 1..2 : SelectSheet(k)
       \/ \E f \in FilesAt(last_call'.path) : SelectFile(f) /\ ~WinLoad[f].raises

\* C20: after update_preview runs with a selected dataset of R rows and C
\* columns the preview grid has min(10, R) rows and the C columns of that
\* dataset and shows its first rows; when no dataset is loaded or the
\* selected name is no loaded dataset the grid is left unchanged.
C20_Preview ==
    [][PreviewStep =>
          IF dataframes' # <<>> /\ HasKey(dataframes', selector'.current)
          THEN LET d == Get(dataframes', selector'.current)
               IN /\ preview'.rows = (IF d.nrows < 10 THEN d.nrows ELSE 10)
                  /\ preview'.cols = d.cols
                  /\ preview'.src = d.src
                  /\ preview'.sheet = d.sheet
                  /\ preview'.key = selector'.current
          ELSE preview' = preview]_vars

C20_Witness ==
    /\ preview.key = <<"M", "y", " ", "S", "h", "e", "e", "t">>
    /\ selector.current = preview.key
    /\ preview.rows = 10
    /\ Len(preview.cols) = 2
    /\ Get(dataframes, preview.key).nrows = BatchSize + 1

(***************************************************************************)
(* Properties of DatabaseConfig and import_dataframes.                     *)
(***************************************************************************)
ConnectedLine == Line("info", <<Lit("Successfully connected to database")>>)

\* C21: in any sequence of DatabaseConfig.connect calls, a call that succeeds
\* returns True, stores the engine it created and logs one success line; a
\* call that returns False logs one error line and no success line and leaves
\* the engine None; connect never raises.
C21_ConnectOutcome ==
    dbc_call.fn = "connect" =>
        /\ ~dbc_call.raised
        /\ dbc_call.ret =>
              /\ db_config.engine = EngineOf(dbc_call.n)
              /\ dbc_call.lines = <<ConnectedLine>>
        /\ ~dbc_call.ret =>
              /\ Len(dbc_call.lines) = 1
              /\ dbc_call.lines[1].level = "error"
              /\ db_config.engine = NoEngine

\* C22: create_table_from_df never raises; it returns True exactly when its
\* replace-mode write succeeded, with one success line and no error line, and
\* False when the write failed (engine None included), with one error line and
\* no success line.
C22_CreateTableOutcome ==
    dbc_call.fn = "create_table_from_df" =>
        /\ ~dbc_call.raised
        /\ Len(dbc_call.writes) = 1
        /\ dbc_call.ret <=> dbc_call.writes[1].ok
        /\ Len(dbc_call.lines) = 1
        /\ dbc_call.lines[1].level = (IF dbc_call.ret THEN "info" ELSE "error")

\* C23: for every table write attempted during an import exactly one log line
\* records its success or its failure; in import_dataframes for each dataset
\* of the mapping, the tables written before a later write fails included.
C23_OneLinePerWrite ==
    dbc_call.fn \in {"import_dataframes", "create_table_from_df"} =>
        /\ Len(dbc_call.lines) = Len(dbc_call.writes)
        /\ \A k \in 1..Len(dbc_call.writes) :
              /\ Arg("table", Text(dbc_call.writes[k].table)) \in Range(dbc_call.lines[k].parts)
              /\ dbc_call.lines[k].level = (IF dbc_call.writes[k].ok THEN "info" ELSE "error")

\* C26: each dataset is persisted as its own table: after import_dataframes
\* has succeeded on a mapping with k source names, k distinct tables have been
\* written and each holds the rows of its own dataset.
C26_OneTablePerDataset ==
    (dbc_call.fn = "import_dataframes" /\ ~dbc_call.raised) =>
        LET m == dbc_call.arg
        IN /\ Cardinality({w.table : w \in Range(dbc_call.writes)}) = Len(m)
           /\ \A k \in 1..Len(m) :
                 HoldsExactly(db[sanitize_table_name(m[k].key)], m[k].df)

(***************************************************************************)
(* Properties of the main window: the import's start, end and display.     *)
(***************************************************************************)
\* a step that calls import_data while the selected name is no key of
\* dataframes
MissingSelectionStep == imports' # imports /\ ~HasKey(dataframes, selector.current)

\* C24: import_data, when the selected name is not a key of dataframes
\* (nothing loaded, or a stale selection), reports an error to the user and
\* stops before any backend contact: no connection attempt, no table creation
\* and no batch write happen, and dataframes is unchanged.
C24_MissingSelectionStops ==
    [][/\ MissingSelectionStep =>
             /\ pc' = "Failed"
             /\ calls' = <<>>
             /\ engine' = "None"
             /\ db' = db
             /\ dataframes' = dataframes
             /\ \E k \in 1..Len(dialogs') :
                   dialogs'[k].kind = "critical" /\ dialogs'[k].title = "Import Error"
       /\ (pc = "Failed" /\ calls = <<>> /\ imports' = imports) =>
             (pc' = "Failed" /\ calls' = <<>> /\ db' = db)]_vars

C24_Witness ==
    /\ pc = "Failed"
    /\ calls = <<>>
    /\ current_sheet = <<"M", "y", " ", "S", "h", "e", "e", "t">>
    /\ Keys(dataframes) = << <<"S", "h", "e", "e", "t", "1">> >>
    /\ ~HasKey(dataframes, current_sheet)
    /\ ImportErrors # <<>>
    /\ db = InitialTables

NonDecreasing(s) == \A k \in 1..(Len(s) - 1) : s[k] <= s[k + 1]
\* the replace-mode write of this import_data call has succeeded
TableCreated == \E k \in 1..Len(calls) : calls[k].op = "replace" /\ calls[k].ok

\* C27: during one import_data call the values set on the progress bar are
\* non-decreasing and within 0..100: 0 at the start, 20 once the table is
\* created, a value in 20..100 after each batch, and 100 after the loop only
\* when every batch has succeeded; a failed import never shows the success
\* message.
C27_ProgressMonotone ==
    /\ NonDecreasing(progress)
    /\ \A k \in 1..Len(progress) : progress[k] \in 0..100
    /\ pc = "Idle" => progress = <<>>
    /\ pc # "Idle" =>
          /\ progress[1] = 0
          /\ Len(progress) = (IF TableCreated THEN 2 + Len(OkAppends) ELSE 1)
                                + (IF pc = "Done" THEN 1 ELSE 0)
    /\ Len(progress) >= 2 => progress[2] = TableCreatedProgress
    /\ \A k \in 3..Len(progress) : progress[k] \in TableCreatedProgress..100
    /\ pc = "Done" =>
          /\ progress[Len(progress)] = 100
          /\ Len(OkAppends) = BatchCount(df.nrows)
          /\ Appends = OkAppends
    /\ pc = "Failed" => ~SuccessReported

C27_Witness ==
    /\ pc = "Failed"
    /\ BatchFailed
    /\ progress = <<0, 20, 52, 84>>
    /\ ImportErrors # <<>>

\* C28: whenever import_data returns, on success and on every failure path,
\* the progress bar is hidden and the import button is enabled again; while
\* the call is running, from its first statement on, the button is disabled
\* and the bar is shown.
C28_ButtonAndBar ==
    /\ pc \in {"Done", "Failed"} => ~bar_visible /\ import_btn
    /\ Running => ~import_btn /\ bar_visible

\* C30: after every MainWindow.load_file call, successful or failed, the names
\* the dataset selector offers are exactly the keys of dataframes, so the
\* selected name is a loaded dataset whenever a dataset is loaded.
C30_SelectorOffersKeys ==
    /\ last_call.fn = "MainWindow.load_file" => selector.items = Keys(dataframes)
    /\ dataframes # <<>> => HasKey(dataframes, selector.current)

\* a step that runs the body of the batch loop
LoopBodyStep == pc = "Writing" /\ calls' # calls

\* C25: every import_data call runs to completion: provided each backend call
\* returns or raises, the operation reaches Done or Failed and returns; the
\* start index of the batch loop strictly increases from one iteration to the
\* next, and the loop body runs at most ceil(N/1000) times for N rows.
C25_Terminates ==
    /\ Running ~> (pc \in {"Done", "Failed"})
    /\ [][(LoopBodyStep /\ pc' = "Writing") => i' > i]_vars
    /\ [](Len(Appends) <= BatchCount(df.nrows))

C25_Witness ==
    /\ pc = "Done"
    /\ df.nrows = 2 * BatchSize + BatchSize \div 2
    /\ Len(Appends) = 3
    /\ i = 3 * BatchSize
    /\ events = MaxYieldEvents

\* the import_data calls in progress: the running one and the calls
\* suspended under it
InProgress == Len(suspended) + (IF Running THEN 1 ELSE 0)

\* C29: at most one import is in progress at any time: while import_data is
\* running, the points where it yields to UI event processing included, the
\* import button stays disabled, so no UI event handled during the yield (a
\* file selection through select_file included) can start a second
\* import_data before the first has returned.
C29_OneImportAtATime == InProgress <= 1

====
